---- MODULE Spec2Model ----
(***************************************************************************)
(* The streaming-sound decode scheduler of kira                            *)
(* (crates/kira/src/sound/streaming/sound/decode_scheduler.rs) as a state  *)
(* machine: the decoder thread's driver loop (start / run), the frame,     *)
(* command and error rings, the transport, the decoder capability, the     *)
(* shared block, the audio-thread consumer and the control plane.          *)
(*                                                                         *)
(* Time is counted in sub-frame ticks: one second is sample_rate frames    *)
(* and one frame is SubFrames ticks, so an f64 number of seconds x is the  *)
(* integer x * sample_rate * SubFrames, and (x * sample_rate).round() is   *)
(* Round(ticks).                                                           *)
(***************************************************************************)
EXTENDS Integers, Sequences, FiniteSets, TLC

VARIABLES
    frame_ring,                  \* frame_producer / frame_consumer: Seq of TimestampedFrame
    command_ring,                \* command_consumer and its producer: Seq of commands
    error_ring,                  \* error_producer and its consumer: Seq of errors
    transport,                   \* DecodeScheduler.transport
    decoder_current_frame_index, \* DecodeScheduler.decoder_current_frame_index
    decoded_chunk,               \* DecodeScheduler.decoded_chunk: <<>> (None) or <<chunk>>
    decoder,                     \* the boxed Decoder: its own cursor
    shared,                      \* Arc<Shared>: state, position, reached_end
    pc,                          \* the decoder thread: "run", "body" or "done"
    faults,                      \* decoder calls that may still fail
    issued,                      \* commands the control plane has issued so far
    last,                        \* history: what the last completed run() step did
    produced,                    \* history: frames pushed by run() while no command was applied
    pristine,                    \* history: no command has been applied yet
    afterStop,                   \* history: frames pushed since state became Stopped
    stream,                      \* history: the last frame run() pushed, seeks since
    listener,                    \* Listener: position, orientation
    emitters,                    \* the scene's Arena<Emitter>, in iteration order
    output                       \* <<>>, or <<the Frame process() returned for this scene>>

vars == <<frame_ring, command_ring, error_ring, transport,
          decoder_current_frame_index, decoded_chunk, decoder, shared, pc,
          faults, issued, last, produced, pristine, afterStop, stream,
          listener, emitters, output>>

----------------------------------------------------------------------------
(* Bounds of the model *)

\* capacity of the frame ring (BUFFER_SIZE, 16_384 in the source, scaled down)
BUFFER_SIZE == 2
\* capacity of the command ring (settings.command_capacity)
CommandCapacity == 2
\* capacity of the error ring (settings.error_capacity)
ErrorCapacity == 1
\* total number of frames of the source (decoder.num_frames())
NumFrames == 3
\* largest chunk one decode() call returns
MaxChunk == 2
\* how far below the requested index decoder.seek may land
MaxSeekSlack == 1
\* ticks per frame: the resolution of times given in seconds
SubFrames == 2
\* commands the control plane issues in one behaviour
MaxCommands == 2
\* decoder calls that fail in one behaviour
MaxFaults == 1
\* saturation of the produced counter
MaxProduced == 10
\* consecutive empty chunks decode() may return
MaxEmpty == 1

----------------------------------------------------------------------------
(* Frames and the source *)

\* Frame::ZERO
FrameZERO == 0

\* the source's frame i (distinct, non-zero values)
Source(i) == i + 1

Min(a, b) == IF a < b THEN a ELSE b
Abs(a) == IF a < 0 THEN -a ELSE a

\* f64::round of ticks / SubFrames: to nearest, halves away from zero
Round(ticks) ==
    IF ticks >= 0
    THEN (2 * ticks + SubFrames) \div (2 * SubFrames)
    ELSE -((2 * (-ticks) + SubFrames) \div (2 * SubFrames))

----------------------------------------------------------------------------
(* Transport (crates/kira/src/sound/transport.rs is not part of the sources
   at hand; modelled from section 4.1 of the specification) *)

\* a region in frames with an optional end, resolved against num_frames
ResolveRegion(region) ==
    <<region.start, IF region.end = <<>> THEN NumFrames ELSE region.end[1]>>

\* Transport::new(playback_region, loop_region, false, sample_rate, num_frames)
TransportNew(playback_region, loop_region) ==
    [position        |-> ResolveRegion(playback_region)[1],
     playing         |-> TRUE,
     playback_region |-> ResolveRegion(playback_region),
     loop_region     |-> IF loop_region = <<>> THEN <<>>
                         ELSE <<ResolveRegion(loop_region[1])>>]

\* Transport::set_playback_region: updates the bounds, does not move the cursor
set_playback_region(t, region) ==
    [t EXCEPT !.playback_region = ResolveRegion(region)]

\* Transport::set_loop_region: same
set_loop_region(t, region) ==
    [t EXCEPT !.loop_region = IF region = <<>> THEN <<>>
                              ELSE <<ResolveRegion(region[1])>>]

\* Transport::increment_position
increment_position(t) ==
    LET p == t.position + 1 IN
    IF t.loop_region # <<>> /\ p >= t.loop_region[1][2]
    THEN [t EXCEPT !.position = p - (t.loop_region[1][2] - t.loop_region[1][1])]
    ELSE IF p >= t.playback_region[2]
         THEN [t EXCEPT !.position = p, !.playing = FALSE]
         ELSE [t EXCEPT !.position = p]

\* Transport::seek_to
transport_seek_to(t, index) ==
    IF t.playback_region[1] <= index /\ index < t.playback_region[2]
    THEN [t EXCEPT !.position = index, !.playing = TRUE]
    ELSE [t EXCEPT !.position = index]

----------------------------------------------------------------------------
(* The Decoder capability (an external collaborator; modelled from its
   contract, section 4.2 of the specification).  A call that fails leaves the
   decoder's cursor where it was.  A failure is either transient or breaks
   the decoder for good: every later call fails. *)

\* the ways a call of a decoder with f failures left can fail
DecoderFailures(dec, f) ==
    IF dec.broken
    THEN {[dec |-> dec, faults |-> f]}
    ELSE IF f > 0
    THEN {[dec |-> dec, faults |-> f - 1],
          [dec |-> [dec EXCEPT !.broken = TRUE], faults |-> f - 1]}
    ELSE {}

\* the results decoder.seek(index) can have: the index landed on, at most
\* MaxSeekSlack below the requested one, or an error
DecoderSeek(dec, f, index) ==
    (IF dec.broken
     THEN {}
     ELSE {[err |-> FALSE, index |-> Min(index, NumFrames) - k,
            dec |-> [dec EXCEPT !.pos = Min(index, NumFrames) - k], faults |-> f] :
              k \in 0..Min(MaxSeekSlack, Min(index, NumFrames))})
    \cup {[err |-> TRUE, index |-> 0, dec |-> x.dec, faults |-> x.faults] :
            x \in DecoderFailures(dec, f)}

\* the results decoder.decode() can have: the next n frames of the source
\* from the decoder's cursor (n = 0 only while `empties` allows), or an error;
\* at the end of the source decode() fails
DecoderDecode(dec, f, empties) ==
    IF dec.pos >= NumFrames
    THEN {[err |-> TRUE, frames |-> <<>>, dec |-> dec, faults |-> f]}
    ELSE (IF dec.broken
          THEN {}
          ELSE {[err |-> FALSE,
                 frames |-> [j \in 1..n |-> Source(dec.pos + j - 1)],
                 dec |-> [dec EXCEPT !.pos = dec.pos + n], faults |-> f] :
                   n \in (IF empties > 0 THEN 0 ELSE 1)..Min(MaxChunk, NumFrames - dec.pos)})
         \cup {[err |-> TRUE, frames |-> <<>>, dec |-> x.dec, faults |-> x.faults] :
                 x \in DecoderFailures(dec, f)}

----------------------------------------------------------------------------
(* DecodeScheduler: the operations of run() on the scheduler's own fields,
   s = [transport, dcfi, chunk, dec, faults], each giving the set of results
   the decoder's choices allow *)

\* DecodedChunk::frame_at_index: <<>> (None) or <<frame>>
chunk_frame_at_index(chunk, index) ==
    IF index < chunk.start_index
    THEN <<>>
    ELSE IF index - chunk.start_index < Len(chunk.frames)
         THEN <<chunk.frames[index - chunk.start_index + 1]>>
         ELSE <<>>

\* the cached chunk's frame at index, if it has one
cached_frame(s, index) ==
    IF s.chunk = <<>> THEN <<>> ELSE chunk_frame_at_index(s.chunk[1], index)

decode_chunk_TaggedAfter(s, r) ==
    [s EXCEPT !.chunk = <<[start_index |-> s.dcfi + Len(r.frames), frames |-> r.frames]>>,
              !.dcfi = s.dcfi + Len(r.frames),
              !.dec = r.dec,
              !.faults = r.faults]

\* one pass of the decode loop: decode a chunk, tag it with the cursor before
\* the decode, advance the cursor, make it the cached chunk
decode_chunk(s, r) ==
    [s EXCEPT !.chunk = <<[start_index |-> s.dcfi, frames |-> r.frames]>>,
              !.dcfi = s.dcfi + Len(r.frames),
              !.dec = r.dec,
              !.faults = r.faults]

RECURSIVE decode_loop_OnePass(_, _, _)
decode_loop_OnePass(s, index, empties) ==
    {IF r.err
     THEN [err |-> TRUE, frame |-> FrameZERO,
           s |-> [s EXCEPT !.dec = r.dec, !.faults = r.faults]]
     ELSE LET s2 == decode_chunk(s, r) IN
          [err |-> FALSE,
           frame |-> IF cached_frame(s2, index) # <<>>
                     THEN cached_frame(s2, index)[1] ELSE FrameZERO,
           s |-> s2]
     : r \in DecoderDecode(s.dec, s.faults, empties)}

\* the loop of frame_at_index: decode chunks until one has the frame
RECURSIVE decode_loop(_, _, _)
decode_loop(s, index, empties) ==
    UNION {
        IF r.err
        THEN {[err |-> TRUE, frame |-> FrameZERO,
               s |-> [s EXCEPT !.dec = r.dec, !.faults = r.faults]]}
        ELSE LET s2 == decode_chunk(s, r) IN
             IF cached_frame(s2, index) # <<>>
             THEN {[err |-> FALSE, frame |-> cached_frame(s2, index)[1], s |-> s2]}
             ELSE decode_loop(s2, index,
                              IF Len(r.frames) = 0 THEN empties - 1 ELSE MaxEmpty)
        : r \in DecoderDecode(s.dec, s.faults, empties)}

\* the seek of frame_at_index: only when the index is below the cursor
seek_back(s, index) ==
    IF index < s.dcfi
    THEN {[err |-> r.err,
           s |-> IF r.err
                 THEN [s EXCEPT !.dec = r.dec, !.faults = r.faults]
                 ELSE [s EXCEPT !.dcfi = r.index, !.dec = r.dec, !.faults = r.faults]]
          : r \in DecoderSeek(s.dec, s.faults, index)}
    ELSE {[err |-> FALSE, s |-> s]}

\* DecodeScheduler::frame_at_index
frame_at_index(s, index) ==
    IF index < 0
    THEN {[err |-> FALSE, frame |-> FrameZERO, s |-> s]}
    ELSE IF cached_frame(s, index) # <<>>
    THEN {[err |-> FALSE, frame |-> cached_frame(s, index)[1], s |-> s]}
    ELSE UNION {
            IF k.err
            THEN {[err |-> TRUE, frame |-> FrameZERO, s |-> k.s]}
            ELSE decode_loop(k.s, index, MaxEmpty)
            : k \in seek_back(s, index)}

\* the numbers of decoder.decode() calls the loop of frame_at_index can make
RECURSIVE decode_calls(_, _, _)
decode_calls(s, index, empties) ==
    UNION {
        IF r.err
        THEN {1}
        ELSE LET s2 == decode_chunk(s, r) IN
             IF cached_frame(s2, index) # <<>>
             THEN {1}
             ELSE {n + 1 : n \in decode_calls(s2, index,
                                 IF Len(r.frames) = 0 THEN empties - 1 ELSE MaxEmpty)}
        : r \in DecoderDecode(s.dec, s.faults, empties)}

\* the calls of decoder.seek() frame_at_index makes
seek_calls(s, index) ==
    IF index < 0 \/ cached_frame(s, index) # <<>> THEN 0
    ELSE IF index < s.dcfi THEN 1 ELSE 0

\* the numbers of decoder.decode() calls frame_at_index can make
frame_at_index_decodes(s, index) ==
    IF index < 0 \/ cached_frame(s, index) # <<>>
    THEN {0}
    ELSE UNION {IF k.err THEN {0} ELSE decode_calls(k.s, index, MaxEmpty)
                : k \in seek_back(s, index)}

seek_to_index_ClampsTransport(s, index) ==
    LET i == IF index < 0 THEN 0 ELSE index
        t == [s EXCEPT !.transport = transport_seek_to(s.transport, i)] IN
    {[err |-> r.err,
      s |-> IF r.err
            THEN [t EXCEPT !.dec = r.dec, !.faults = r.faults]
            ELSE [t EXCEPT !.dcfi = r.index, !.dec = r.dec, !.faults = r.faults]]
     : r \in DecoderSeek(t.dec, t.faults, i)}

\* DecodeScheduler::seek_to_index
seek_to_index(s, index) ==
    LET t == [s EXCEPT !.transport = transport_seek_to(s.transport, index)] IN
    {[err |-> r.err,
      s |-> IF r.err
            THEN [t EXCEPT !.dec = r.dec, !.faults = r.faults]
            ELSE [t EXCEPT !.dcfi = r.index, !.dec = r.dec, !.faults = r.faults]]
     : r \in DecoderSeek(t.dec, t.faults, IF index < 0 THEN 0 ELSE index)}

seek_to_Relative(s, position) ==
    seek_to_index(s, s.transport.position + Round(position))

seek_to_Truncating(s, position) ==
    seek_to_index(s, IF position >= 0 THEN position \div SubFrames
                     ELSE -((-position) \div SubFrames))

\* DecodeScheduler::seek_to
seek_to(s, position) == seek_to_index(s, Round(position))

seek_by_Absolute(s, amount, shared_position) == seek_to(s, amount)

seek_by_FromCursor(s, amount, shared_position) ==
    seek_to(s, s.transport.position * SubFrames + amount)

\* DecodeScheduler::seek_by, with shared.position() as read
seek_by(s, amount, shared_position) == seek_to(s, shared_position + amount)

apply_command_RegionSeeks(s, command, shared_position) ==
    CASE command.type = "SetPlaybackRegion" ->
            {[err |-> FALSE,
              s |-> [s EXCEPT !.transport =
                        transport_seek_to(
                            set_playback_region(s.transport, command.region[1]),
                            ResolveRegion(command.region[1])[1])]]}
      [] command.type = "SetLoopRegion" ->
            {[err |-> FALSE,
              s |-> [s EXCEPT !.transport =
                        transport_seek_to(
                            set_loop_region(s.transport, command.region),
                            ResolveRegion(command.region[1])[1])]]}
      [] command.type = "SeekBy" -> seek_by(s, command.seconds, shared_position)
      [] command.type = "SeekTo" -> seek_to(s, command.seconds)

\* one command of the drain loop
apply_command(s, command, shared_position) ==
    CASE command.type = "SetPlaybackRegion" ->
            {[err |-> FALSE,
              s |-> [s EXCEPT !.transport =
                        set_playback_region(s.transport, command.region[1])]]}
      [] command.type = "SetLoopRegion" ->
            {[err |-> FALSE,
              s |-> [s EXCEPT !.transport =
                        set_loop_region(s.transport, command.region)]]}
      [] command.type = "SeekBy" -> seek_by(s, command.seconds, shared_position)
      [] command.type = "SeekTo" -> seek_to(s, command.seconds)

RECURSIVE drain_RetriesFailed(_, _, _)
drain_RetriesFailed(s, commands, shared_position) ==
    IF commands = <<>>
    THEN {[err |-> FALSE, s |-> s, rest |-> <<>>]}
    ELSE UNION {
            IF r.err
            THEN {[err |-> TRUE, s |-> r.s, rest |-> commands]}
            ELSE drain_RetriesFailed(r.s, Tail(commands), shared_position)
            : r \in apply_command(s, Head(commands), shared_position)}

RECURSIVE drain_NewestFirst(_, _, _)
drain_NewestFirst(s, commands, shared_position) ==
    IF commands = <<>>
    THEN {[err |-> FALSE, s |-> s, rest |-> <<>>]}
    ELSE UNION {
            IF r.err
            THEN {[err |-> TRUE, s |-> r.s,
                   rest |-> SubSeq(commands, 1, Len(commands) - 1)]}
            ELSE drain_NewestFirst(r.s, SubSeq(commands, 1, Len(commands) - 1),
                                   shared_position)
            : r \in apply_command(s, commands[Len(commands)], shared_position)}

\* the drain loop of run(): pop and apply commands until the ring is empty or
\* a seek fails; `rest` is what stays in the command ring
RECURSIVE drain(_, _, _)
drain(s, commands, shared_position) ==
    IF commands = <<>>
    THEN {[err |-> FALSE, s |-> s, rest |-> <<>>]}
    ELSE UNION {
            IF r.err
            THEN {[err |-> TRUE, s |-> r.s, rest |-> Tail(commands)]}
            ELSE drain(r.s, Tail(commands), shared_position)
            : r \in apply_command(s, Head(commands), shared_position)}

\* run(), lines 110-122: drain the commands, then look up the frame at the
\* transport position; err, the scheduler's fields, the commands left in the
\* ring and the frame found
run_results(s, commands, shared_position) ==
    UNION {
        IF d.err
        THEN {[err |-> TRUE, s |-> d.s, rest |-> d.rest, frame |-> FrameZERO]}
        ELSE {[err |-> f.err, s |-> f.s, rest |-> <<>>, frame |-> f.frame]
              : f \in frame_at_index(d.s, d.s.transport.position)}
        : d \in drain(s, commands, shared_position)}

----------------------------------------------------------------------------
(* Inputs *)

\* PlaybackState
PlaybackStates == {"Playing", "Stopped"}

\* settings.playback_region: [start, end) in frames, end optional
PlaybackRegions ==
    {[start |-> 0, end |-> <<>>], [start |-> 1, end |-> <<NumFrames - 1>>]}

\* settings.loop_region: none, the whole source, or an inner region
LoopRegions ==
    {<<>>, <<[start |-> 0, end |-> <<>>]>>, <<[start |-> 1, end |-> <<NumFrames - 1>>]>>}

\* times of SeekTo, in ticks: halfway between frames 1 and 2
SeekTimes == {SubFrames + 1}

\* a time of SeekTo further before the start than the frame ring is deep
FarSeekTime == -((BUFFER_SIZE + 2) * SubFrames + 1)

\* amounts of SeekBy, in ticks
SeekAmounts == {-(SubFrames + 1), SubFrames + 1}

\* DecodeSchedulerCommand: the seek commands
SeekCommands ==
    {[type |-> "SeekTo", seconds |-> t, region |-> <<>>] : t \in SeekTimes}
    \cup {[type |-> "SeekBy", seconds |-> d, region |-> <<>>] : d \in SeekAmounts}

\* DecodeSchedulerCommand: a far SeekTo and a SeekBy
FarSeekCommands ==
    {[type |-> "SeekTo", seconds |-> FarSeekTime, region |-> <<>>],
     [type |-> "SeekBy", seconds |-> SubFrames + 1, region |-> <<>>]}

\* DecodeSchedulerCommand: the SeekTo commands
SeekToCommands == {c \in SeekCommands : c.type = "SeekTo"}

\* DecodeSchedulerCommand: the region commands, with a SeekTo
RegionCommands ==
    {[type |-> "SetPlaybackRegion", seconds |-> 0,
      region |-> <<[start |-> 1, end |-> <<NumFrames - 1>>]>>],
     [type |-> "SetLoopRegion", seconds |-> 0,
      region |-> <<[start |-> 1, end |-> <<NumFrames - 1>>]>>]}
    \cup SeekToCommands

IsSeek(command) == command.type \in {"SeekTo", "SeekBy"}

\* the scheduler's own fields as one record
Sched ==
    [transport |-> transport, dcfi |-> decoder_current_frame_index,
     chunk |-> decoded_chunk, dec |-> decoder, faults |-> faults]

\* history: no step yet; result is "Stopped" (End at the state check), "Wait",
\* "Continue", "End" (End after the last frame) or "Err"; index is the index
\* pushed, applied the commands taken off the command ring, and dropped
\* whether the step's error found the error ring full
NoStep == [result |-> "None", index |-> 0, applied |-> <<>>, dropped |-> FALSE]

\* history: run() has pushed no frame yet; then pushed is TRUE, tag the index
\* of the last frame run() pushed, wrapped whether the increment after it
\* was a loop wrap, and sought whether a seek was applied since, by a step
\* that failed
NoStream == [pushed |-> FALSE, tag |-> 0, wrapped |-> FALSE, sought |-> FALSE]

----------------------------------------------------------------------------
(* f32 arithmetic, scaled down: a binary floating-point format with
   MantissaBits significant bits, round to nearest, ties to even, and gradual
   underflow. A value is an integer count of the format's smallest step,
   1 / Quantum; it is representable iff it is m * 2^j with |m| < 2^MantissaBits.
   Every operation returns the representable value nearest to the exact
   result, as the f32 operations of the source do with 24 bits. *)

\* significant bits of the format (f32: 24)
MantissaBits == 5

\* steps per unit: 2^-FracBits is the smallest positive value
FracBits == MantissaBits + 4
Quantum == 2 ^ FracBits

\* the denominator c scaled by the power of two that brings a / c below
\* 2^MantissaBits
RECURSIVE ScaledDen(_, _)
ScaledDen(a, c) == IF a < c * (2 ^ MantissaBits) THEN c ELSE ScaledDen(a, 2 * c)

\* a / c rounded to an integer, halves to the even neighbour
RoundHalfEven(a, c) ==
    LET q == a \div c
        r == a % c
    IN  IF 2 * r < c THEN q
        ELSE IF 2 * r > c THEN q + 1
        ELSE IF q % 2 = 0 THEN q ELSE q + 1

\* the representable value nearest to a / b steps, for a >= 0 and b > 0
FlPos(a, b) == LET c == ScaledDen(a, b) IN RoundHalfEven(a, c) * (c \div b)

\* the representable value nearest to a / b steps, for b > 0
Fl(a, b) == IF a < 0 THEN -FlPos(-a, b) ELSE FlPos(a, b)

\* the f32 literal n / d
F32(n, d) == Fl(n * Quantum, d)

\* f32 +, -, *, /
fadd(x, y) == Fl(x + y, 1)
fsub(x, y) == Fl(x - y, 1)
fmul(x, y) == Fl(x * y, Quantum)
fdiv(x, y) == IF y < 0 THEN Fl(-(x * Quantum), -y) ELSE Fl(x * Quantum, y)

\* the least j with n < 4^(MantissaBits + j)
RECURSIVE SqrtShift(_, _)
SqrtShift(n, j) ==
    IF n < (4 ^ j) * (4 ^ MantissaBits) THEN j ELSE SqrtShift(n, j + 1)

\* f32::sqrt: the representable value nearest to the square root
fsqrt(x) ==
    LET n == x * Quantum
        j == SqrtShift(n, 0)
        m == CHOOSE k \in 0..(2 ^ MantissaBits) :
                /\ k = 0 \/ (2 * k - 1) * (2 * k - 1) * (4 ^ j) <= 4 * n
                /\ 4 * n < (2 * k + 1) * (2 * k + 1) * (4 ^ j)
    IN  m * (2 ^ j)

One == Quantum
Two == 2 * Quantum

----------------------------------------------------------------------------
(* glam::Vec3 and glam::Quat, as the scalar-math build of glam computes them;
   a Vec3 is <<x, y, z>>, a Quat <<x, y, z, w>> *)

Vec3ZERO == <<0, 0, 0>>
Vec3X == <<One, 0, 0>>
Vec3NEG_X == <<-One, 0, 0>>
QuatIDENTITY == <<0, 0, 0, One>>

vec3_add(a, b) == <<fadd(a[1], b[1]), fadd(a[2], b[2]), fadd(a[3], b[3])>>
vec3_sub(a, b) == <<fsub(a[1], b[1]), fsub(a[2], b[2]), fsub(a[3], b[3])>>
vec3_mul(a, k) == <<fmul(a[1], k), fmul(a[2], k), fmul(a[3], k)>>
dot(a, b) == fadd(fadd(fmul(a[1], b[1]), fmul(a[2], b[2])), fmul(a[3], b[3]))
cross(a, b) ==
    <<fsub(fmul(a[2], b[3]), fmul(b[2], a[3])),
      fsub(fmul(a[3], b[1]), fmul(b[3], a[1])),
      fsub(fmul(a[1], b[2]), fmul(b[1], a[2]))>>
length(v) == fsqrt(dot(v, v))

\* Vec3::normalize_or_zero: v / |v|, or ZERO when 1 / |v| is not finite
normalize_or_zero(v) ==
    LET len == length(v)
    IN  IF len = 0 THEN Vec3ZERO ELSE vec3_mul(v, fdiv(One, len))

\* Quat * Vec3: the rotation of v by q
quat_mul_vec3(q, v) ==
    LET w == q[4]
        b == <<q[1], q[2], q[3]>>
        b2 == dot(b, b)
    IN  vec3_add(vec3_add(vec3_mul(v, fsub(fmul(w, w), b2)),
                          vec3_mul(b, fmul(dot(v, b), Two))),
                 vec3_mul(cross(b, v), fmul(w, Two)))

\* Quat::from_xyzw(x, y, z, w).normalize(), for whole x, y, z, w
quat_normalize(x, y, z, w) ==
    LET q == <<x * One, y * One, z * One, w * One>>
        len == fsqrt(fadd(fadd(fadd(fmul(q[1], q[1]), fmul(q[2], q[2])),
                               fmul(q[3], q[3])), fmul(q[4], q[4])))
        rcp == fdiv(One, len)
    IN  <<fmul(q[1], rcp), fmul(q[2], rcp), fmul(q[3], rcp), fmul(q[4], rcp)>>

----------------------------------------------------------------------------
(* Listener (spatial/listener.rs); the Emitter is modelled from section 4.5
   of the specification *)

EAR_DISTANCE == F32(1, 10)
MIN_EAR_AMPLITUDE == F32(1, 2)

FrameStereoZERO == <<0, 0>>

\* Listener::new
ListenerNew(position, orientation) ==
    [position |-> position, orientation |-> orientation]

\* Emitter::distances().relative_distance
relative_distance(distances, distance) ==
    LET r == fdiv(fsub(distance, distances.min),
                  fsub(distances.max, distances.min))
    IN  IF r < 0 THEN 0 ELSE IF r > One THEN One ELSE r

\* Volume::Decibels(lerp(MIN_DECIBELS, 0, relative_volume)).as_amplitude():
\* 10^(-3 (1 - relative_volume)), tabulated at the quarters of relative_volume
DecibelAmplitudes ==
    <<F32(1, 1000), F32(562, 100000), F32(316, 10000), F32(1778, 10000), One>>
as_amplitude(relative_volume) ==
    DecibelAmplitudes[((4 * relative_volume) \div One) + 1]

\* process(), lines 60-72: the amplitude of an emitter with a (linear)
\* attenuation function
attenuation(l, emitter) ==
    LET distance == length(vec3_sub(emitter.position, l.position))
        relative_volume ==
            fsub(One, relative_distance(emitter.distances, distance))
    IN  as_amplitude(relative_volume)

\* Listener::ear_positions: <<left, right>>
ear_positions(l) ==
    <<vec3_add(l.position,
               quat_mul_vec3(l.orientation, vec3_mul(Vec3NEG_X, EAR_DISTANCE))),
      vec3_add(l.position,
               quat_mul_vec3(l.orientation, vec3_mul(Vec3X, EAR_DISTANCE)))>>

\* process(), lines 75-85: <<left_ear_volume, right_ear_volume>> of an emitter
\* at position p
ear_volumes(l, p) ==
    LET ears == ear_positions(l)
        left_ear_direction == quat_mul_vec3(l.orientation, Vec3NEG_X)
        right_ear_direction == quat_mul_vec3(l.orientation, Vec3X)
        emitter_direction_relative_to_left_ear ==
            normalize_or_zero(vec3_sub(p, ears[1]))
        emitter_direction_relative_to_right_ear ==
            normalize_or_zero(vec3_sub(p, ears[2]))
    IN  <<fdiv(fadd(dot(left_ear_direction,
                        emitter_direction_relative_to_left_ear), One), Two),
          fdiv(fadd(dot(right_ear_direction,
                        emitter_direction_relative_to_right_ear), One), Two)>>

ear_amplitude_Unscaled(ear_volume) == ear_volume

\* process(), lines 86-89: the factor applied to an ear's channel
ear_amplitude(ear_volume) ==
    fadd(MIN_EAR_AMPLITUDE, fmul(fsub(One, MIN_EAR_AMPLITUDE), ear_volume))

\* the factors process() applies to <<left, right>> of an emitter at p with
\* spatialization enabled
ear_amplitudes(l, p) ==
    LET volumes == ear_volumes(l, p)
    IN  <<ear_amplitude(volumes[1]), ear_amplitude(volumes[2])>>

\* process(), lines 58-90: what one emitter adds to the output
emitter_output(l, emitter) ==
    LET amplitude ==
            IF emitter.attenuation_function = "None" THEN One
            ELSE attenuation(l, emitter)
        attenuated ==
            IF emitter.attenuation_function = "None" THEN emitter.output
            ELSE <<fmul(emitter.output[1], amplitude),
                   fmul(emitter.output[2], amplitude)>>
        amplitudes == ear_amplitudes(l, emitter.position)
    IN  IF emitter.enable_spatialization
        THEN <<fmul(attenuated[1], amplitudes[1]),
               fmul(attenuated[2], amplitudes[2])>>
        ELSE attenuated

\* Frame += Frame
frame_add(a, b) == <<fadd(a[1], b[1]), fadd(a[2], b[2])>>

\* process(), lines 56-93: the loop over the arena from slot i on
RECURSIVE process_from(_, _, _, _)
process_from(l, arena, i, acc) ==
    IF i > Len(arena) THEN acc
    ELSE process_from(l, arena, i + 1, frame_add(acc, emitter_output(l, arena[i])))

\* Listener::process
process(l, arena) == process_from(l, arena, 1, FrameStereoZERO)

----------------------------------------------------------------------------
(* The state machine *)

\* DecodeScheduler::new, Shared::new, with a decoder of which f calls fail and
\* settings among the given playback and loop regions
InitSound(f, playback_regions, loop_regions) ==
    /\ frame_ring = <<[frame |-> FrameZERO, index |-> 0]>>
    /\ command_ring = <<>>
    /\ error_ring = <<>>
    /\ \E pr \in playback_regions, lr \in loop_regions :
           transport = TransportNew(pr, lr)
    /\ decoder_current_frame_index = 0
    /\ decoded_chunk = <<>>
    /\ decoder = [pos |-> 0, broken |-> FALSE]
    /\ shared = [state |-> "Playing", position |-> 0, reached_end |-> FALSE]
    /\ pc = "run"
    /\ faults = f
    /\ issued = 0
    /\ last = NoStep
    /\ produced = 0
    /\ pristine = TRUE
    /\ afterStop = 0
    /\ stream = NoStream

\* the sound in a scene with no emitter, which is never processed
InitFrom(f, playback_regions, loop_regions) ==
    /\ InitSound(f, playback_regions, loop_regions)
    /\ listener = ListenerNew(Vec3ZERO, QuatIDENTITY)
    /\ emitters = <<>>
    /\ output = <<>>

\* any of the settings
InitWith(f) == InitFrom(f, PlaybackRegions, LoopRegions)

\* a decoder whose calls succeed, but for decode() at the end of the source
Init == InitWith(0)

RunStopped_Ignored ==
    /\ shared.state = "Stopped"
    /\ pc' = "body"
    /\ last' = last

\* run(), lines 102-104: the state check
RunStopped ==
    /\ shared.state = "Stopped"
    /\ pc' = "done"
    /\ last' = [NoStep EXCEPT !.result = "Stopped"]

RunFull_Continues ==
    /\ shared.state # "Stopped"
    /\ Len(frame_ring) >= BUFFER_SIZE
    /\ pc' = "run"
    /\ last' = [NoStep EXCEPT !.result = "Continue"]

RunFull_NeverWakes ==
    /\ shared.state # "Stopped"
    /\ Len(frame_ring) >= BUFFER_SIZE
    /\ pc' = "asleep"
    /\ last' = [NoStep EXCEPT !.result = "Wait"]

\* run(), lines 106-108: the ring-full check
RunFull ==
    /\ shared.state # "Stopped"
    /\ Len(frame_ring) >= BUFFER_SIZE
    /\ pc' = "run"
    /\ last' = [NoStep EXCEPT !.result = "Wait"]

RunProceed_NoFullCheck ==
    /\ shared.state # "Stopped"
    /\ pc' = "body"
    /\ last' = last

\* run() passes both checks and goes on to the drain loop
RunProceed ==
    /\ shared.state # "Stopped"
    /\ Len(frame_ring) < BUFFER_SIZE
    /\ pc' = "body"
    /\ last' = last

\* the driver loop calls run(): the two checks at its top
RunCheck ==
    /\ pc = "run"
    /\ RunStopped \/ RunFull \/ RunProceed
    /\ UNCHANGED <<frame_ring, command_ring, error_ring, transport,
                   decoder_current_frame_index, decoded_chunk, decoder, shared,
                   faults, issued, produced, pristine, afterStop, stream,
                   listener, emitters, output>>

\* the scheduler's fields after a step
SetSched(s) ==
    /\ transport' = s.transport
    /\ decoder_current_frame_index' = s.dcfi
    /\ decoded_chunk' = s.chunk
    /\ decoder' = s.dec
    /\ faults' = s.faults

RunFailed_Exits(s, rest) ==
    /\ SetSched(s)
    /\ command_ring' = rest
    /\ error_ring' = IF Len(error_ring) < ErrorCapacity
                     THEN Append(error_ring, "DecoderError")
                     ELSE error_ring
    /\ pc' = "done"
    /\ last' = [NoStep EXCEPT !.result = "Err",
                              !.applied = SubSeq(command_ring, 1,
                                                 Len(command_ring) - Len(rest)),
                              !.dropped = Len(error_ring) >= ErrorCapacity]
    /\ pristine' = (pristine /\ Len(command_ring) = Len(rest))
    /\ produced' = IF pristine' THEN produced ELSE 0
    /\ stream' = [stream EXCEPT !.sought =
                     stream.sought
                     \/ \E k \in 1..(Len(command_ring) - Len(rest)) : IsSeek(command_ring[k])]
    /\ UNCHANGED <<frame_ring, shared, afterStop>>

\* start(), lines 93-95: a step that failed; the error is pushed if there is room
RunFailed(s, rest) ==
    /\ SetSched(s)
    /\ command_ring' = rest
    /\ error_ring' = IF Len(error_ring) < ErrorCapacity
                     THEN Append(error_ring, "DecoderError")
                     ELSE error_ring
    /\ pc' = "run"
    /\ last' = [NoStep EXCEPT !.result = "Err",
                              !.applied = SubSeq(command_ring, 1,
                                                 Len(command_ring) - Len(rest)),
                              !.dropped = Len(error_ring) >= ErrorCapacity]
    /\ pristine' = (pristine /\ Len(command_ring) = Len(rest))
    /\ produced' = IF pristine' THEN produced ELSE 0
    /\ stream' = [stream EXCEPT !.sought =
                     stream.sought
                     \/ \E k \in 1..(Len(command_ring) - Len(rest)) : IsSeek(command_ring[k])]
    /\ UNCHANGED <<frame_ring, shared, afterStop>>

RunPush_NoReachedEnd(s, frame) ==
    LET t == increment_position(s.transport) IN
    /\ frame_ring' = Append(frame_ring, [frame |-> frame, index |-> s.transport.position])
    /\ SetSched([s EXCEPT !.transport = t])
    /\ command_ring' = <<>>
    /\ shared' = shared
    /\ pc' = IF t.playing THEN "run" ELSE "done"
    /\ last' = [result |-> IF t.playing THEN "Continue" ELSE "End",
                index |-> s.transport.position, applied |-> command_ring,
                dropped |-> FALSE]
    /\ pristine' = (pristine /\ command_ring = <<>>)
    /\ produced' = IF pristine' THEN Min(produced + 1, MaxProduced) ELSE 0
    /\ afterStop' = IF shared.state = "Stopped" THEN Min(afterStop + 1, 2) ELSE afterStop
    /\ stream' = [pushed |-> TRUE, tag |-> s.transport.position,
                  wrapped |-> t.position # s.transport.position + 1,
                  sought |-> FALSE]
    /\ UNCHANGED error_ring

RunPush_TaggedAfterIncrement(s, frame) ==
    LET t == increment_position(s.transport) IN
    /\ frame_ring' = Append(frame_ring, [frame |-> frame, index |-> t.position])
    /\ SetSched([s EXCEPT !.transport = t])
    /\ command_ring' = <<>>
    /\ shared' = IF t.playing THEN shared ELSE [shared EXCEPT !.reached_end = TRUE]
    /\ pc' = IF t.playing THEN "run" ELSE "done"
    /\ last' = [result |-> IF t.playing THEN "Continue" ELSE "End",
                index |-> t.position, applied |-> command_ring,
                dropped |-> FALSE]
    /\ pristine' = (pristine /\ command_ring = <<>>)
    /\ produced' = IF pristine' THEN Min(produced + 1, MaxProduced) ELSE 0
    /\ afterStop' = IF shared.state = "Stopped" THEN Min(afterStop + 1, 2) ELSE afterStop
    /\ stream' = [pushed |-> TRUE, tag |-> t.position,
                  wrapped |-> t.position # s.transport.position + 1,
                  sought |-> FALSE]
    /\ UNCHANGED error_ring

RunPush_Twice(s, frame) ==
    LET t == increment_position(s.transport) IN
    /\ frame_ring' = Append(Append(frame_ring,
                                   [frame |-> frame, index |-> s.transport.position]),
                            [frame |-> frame, index |-> s.transport.position])
    /\ SetSched([s EXCEPT !.transport = t])
    /\ command_ring' = <<>>
    /\ shared' = IF t.playing THEN shared ELSE [shared EXCEPT !.reached_end = TRUE]
    /\ pc' = IF t.playing THEN "run" ELSE "done"
    /\ last' = [result |-> IF t.playing THEN "Continue" ELSE "End",
                index |-> s.transport.position, applied |-> command_ring,
                dropped |-> FALSE]
    /\ pristine' = (pristine /\ command_ring = <<>>)
    /\ produced' = IF pristine' THEN Min(produced + 1, MaxProduced) ELSE 0
    /\ afterStop' = IF shared.state = "Stopped" THEN Min(afterStop + 1, 2) ELSE afterStop
    /\ stream' = [pushed |-> TRUE, tag |-> s.transport.position,
                  wrapped |-> t.position # s.transport.position + 1,
                  sought |-> FALSE]
    /\ UNCHANGED error_ring

\* run(), lines 123-135: push the frame, advance the transport, end or continue
RunPush(s, frame) ==
    LET t == increment_position(s.transport) IN
    /\ frame_ring' = Append(frame_ring, [frame |-> frame, index |-> s.transport.position])
    /\ SetSched([s EXCEPT !.transport = t])
    /\ command_ring' = <<>>
    /\ shared' = IF t.playing THEN shared ELSE [shared EXCEPT !.reached_end = TRUE]
    /\ pc' = IF t.playing THEN "run" ELSE "done"
    /\ last' = [result |-> IF t.playing THEN "Continue" ELSE "End",
                index |-> s.transport.position, applied |-> command_ring,
                dropped |-> FALSE]
    /\ pristine' = (pristine /\ command_ring = <<>>)
    /\ produced' = IF pristine' THEN Min(produced + 1, MaxProduced) ELSE 0
    /\ afterStop' = IF shared.state = "Stopped" THEN Min(afterStop + 1, 2) ELSE afterStop
    /\ stream' = [pushed |-> TRUE, tag |-> s.transport.position,
                  wrapped |-> t.position # s.transport.position + 1,
                  sought |-> FALSE]
    /\ UNCHANGED error_ring

\* run(), lines 110-135, and the driver's handling of its result
RunBody ==
    /\ pc = "body"
    /\ \E r \in run_results(Sched, command_ring, shared.position) :
          IF r.err THEN RunFailed(r.s, r.rest) ELSE RunPush(r.s, r.frame)
    /\ UNCHANGED <<issued, listener, emitters, output>>

\* the audio thread reads the next frame and publishes its cursor
\* (StreamingSound, modelled from section 4.4 of the specification)
Consume ==
    /\ shared.state = "Playing"
    /\ frame_ring # <<>>
    /\ frame_ring' = Tail(frame_ring)
    /\ shared' = [shared EXCEPT !.position = Head(frame_ring).index * SubFrames]
    /\ UNCHANGED <<command_ring, error_ring, transport, decoder_current_frame_index,
                   decoded_chunk, decoder, pc, faults, issued, last, produced,
                   pristine, afterStop, stream,
                   listener, emitters, output>>

\* the audio thread finds the ring empty after the end was reached
RendererStop ==
    /\ shared.state # "Stopped"
    /\ frame_ring = <<>>
    /\ shared.reached_end
    /\ shared' = [shared EXCEPT !.state = "Stopped"]
    /\ UNCHANGED <<frame_ring, command_ring, error_ring, transport,
                   decoder_current_frame_index, decoded_chunk, decoder, pc, faults,
                   issued, last, produced, pristine, afterStop, stream,
                   listener, emitters, output>>

\* the control plane pauses, resumes or stops the sound
SetState ==
    /\ shared.state # "Stopped"
    /\ \E st \in PlaybackStates \ {shared.state} :
           shared' = [shared EXCEPT !.state = st]
    /\ UNCHANGED <<frame_ring, command_ring, error_ring, transport,
                   decoder_current_frame_index, decoded_chunk, decoder, pc, faults,
                   issued, last, produced, pristine, afterStop, stream,
                   listener, emitters, output>>

\* the control plane sends one of the given commands
IssueCommand(commands) ==
    /\ issued < MaxCommands
    /\ Len(command_ring) < CommandCapacity
    /\ \E c \in commands : command_ring' = Append(command_ring, c)
    /\ issued' = issued + 1
    /\ UNCHANGED <<frame_ring, error_ring, transport, decoder_current_frame_index,
                   decoded_chunk, decoder, shared, pc, faults, last, produced,
                   pristine, afterStop, stream,
                   listener, emitters, output>>

\* the control plane takes an error off the error ring
TakeError ==
    /\ error_ring # <<>>
    /\ error_ring' = Tail(error_ring)
    /\ UNCHANGED <<frame_ring, command_ring, transport, decoder_current_frame_index,
                   decoded_chunk, decoder, shared, pc, faults, issued, last, produced,
                   pristine, afterStop, stream,
                   listener, emitters, output>>

\* the threads' steps, the control plane sending the given commands
NextWith(commands) ==
    \/ RunCheck
    \/ RunBody
    \/ Consume
    \/ RendererStop
    \/ SetState
    \/ IssueCommand(commands)
    \/ TakeError

Next == NextWith(SeekCommands)

\* the sound under seek commands
Spec == Init /\ [][Next]_vars

\* the sound under a SeekTo far from the published position and a SeekBy
SpecFarSeek == Init /\ [][NextWith(FarSeekCommands)]_vars

\* the sound, played from frame 0 with or without an inner loop, under SeekTo
\* commands, with a decoder whose calls may fail
SpecFaulty ==
    /\ InitFrom(MaxFaults, {[start |-> 0, end |-> <<>>]},
                {<<>>, <<[start |-> 1, end |-> <<NumFrames - 1>>]>>})
    /\ [][NextWith(SeekToCommands)]_vars

\* the same, the decoder thread being scheduled again and again: the driver
\* loop of start() calls run() without end, sleeping a bounded time on Wait
SpecFaultyFair == SpecFaulty /\ WF_vars(RunCheck) /\ WF_vars(RunBody)

\* the whole source, played once or in a loop, under SeekTo commands, with a
\* decoder whose calls may fail
SpecLooping ==
    /\ InitFrom(MaxFaults, {[start |-> 0, end |-> <<>>]},
                {<<>>, <<[start |-> 0, end |-> <<>>]>>})
    /\ [][NextWith(SeekToCommands)]_vars

\* DecodeSchedulerCommand: a SeekTo and a loop region command
QueuedCommands == {c \in RegionCommands : c.type \in {"SeekTo", "SetLoopRegion"}}

\* the whole source, played once, under a SeekTo and a loop region command,
\* with a decoder whose calls may fail
SpecQueued ==
    /\ InitFrom(MaxFaults, {[start |-> 0, end |-> <<>>]}, {<<>>})
    /\ [][NextWith(QueuedCommands)]_vars

\* the whole source, played once, under region commands and a SeekTo, with a
\* decoder whose calls may fail
SpecRegions ==
    /\ InitFrom(MaxFaults, {[start |-> 0, end |-> <<>>]}, {<<>>})
    /\ [][NextWith(RegionCommands)]_vars

----------------------------------------------------------------------------
(* The spatial scene: one listener and an arena of emitters *)

\* emitters per arena
MaxEmitters == 3

\* the sound's variables
soundVars == <<frame_ring, command_ring, error_ring, transport,
               decoder_current_frame_index, decoded_chunk, decoder, shared, pc,
               faults, issued, last, produced, pristine, afterStop, stream>>

\* listener positions
ListenerPositions == {Vec3ZERO, Vec3X}

\* unit quaternions: no rotation, the half turn about Y, and the normalized
\* quaternions of two rotations about Z
Orientations ==
    {QuatIDENTITY, <<0, One, 0, 0>>, quat_normalize(0, 0, 1, 1),
     quat_normalize(0, 0, 2, 3)}

\* an emitter (section 4.5): its mono output is broadcast to both channels
Emitter(position, mono, attenuation_function, enable_spatialization) ==
    [position |-> position, output |-> <<mono, mono>>,
     attenuation_function |-> attenuation_function,
     distances |-> [min |-> One, max |-> 3 * One],
     enable_spatialization |-> enable_spatialization]

\* far along +X, and where a listener at the origin is: both spatialized and
\* not attenuated
Far == Emitter(<<10 * One, 0, 0>>, One, "None", TRUE)
Centre == Emitter(Vec3ZERO, One, "None", TRUE)

\* neither attenuated nor spatialized: full scale, and half a unit in the
\* last place of 1.0
Plain == Emitter(<<0, 0, 2 * One>>, One, "None", FALSE)
Faint == Emitter(<<0, 0, -2 * One>>, One \div (2 ^ MantissaBits), "None", FALSE)

\* attenuated on a linear curve, not spatialized
Faded == Emitter(<<0, 2 * One, 0>>, One, "Linear", FALSE)

Emitters == {Far, Centre, Plain, Faint, Faded}

\* the arenas: up to MaxEmitters distinct emitters, in iteration order
Arenas ==
    UNION {{a \in [1..n -> Emitters] : \A i, j \in 1..n : a[i] = a[j] => i = j} :
           n \in 0..MaxEmitters}

\* Listener::set_position; what process() returned is out of date
set_position(position) ==
    /\ listener' = [listener EXCEPT !.position = position]
    /\ output' = <<>>
    /\ UNCHANGED emitters

\* Listener::set_orientation; what process() returned is out of date
set_orientation(orientation) ==
    /\ listener' = [listener EXCEPT !.orientation = orientation]
    /\ output' = <<>>
    /\ UNCHANGED emitters

SetPosition ==
    /\ \E position \in ListenerPositions : set_position(position)
    /\ UNCHANGED soundVars

SetOrientation ==
    /\ \E orientation \in Orientations : set_orientation(orientation)
    /\ UNCHANGED soundVars

Process_MovesListener ==
    /\ output' = <<process(listener, emitters)>>
    /\ listener' = [listener EXCEPT !.position = Vec3ZERO]
    /\ UNCHANGED <<emitters, soundVars>>

\* the scene's tick calls Listener::process on its emitters
Process ==
    /\ output' = <<process(listener, emitters)>>
    /\ UNCHANGED <<listener, emitters, soundVars>>

\* Listener::new on a scene with any of the arenas; the sound does not play
InitListener ==
    /\ InitSound(0, {[start |-> 0, end |-> <<>>]}, {<<>>})
    /\ \E position \in ListenerPositions, orientation \in Orientations :
           listener = ListenerNew(position, orientation)
    /\ emitters \in Arenas
    /\ output = <<>>

NextListener ==
    \/ SetPosition
    \/ SetOrientation
    \/ Process

\* the listener of a scene
SpecListener == InitListener /\ [][NextListener]_vars

----------------------------------------------------------------------------
(* Claims *)

\* the last frame entered into a non-empty ring
LastFrame(ring) == ring[Len(ring)]

\* C1: the frame ring never holds more than BUFFER_SIZE frames, the frame
\* pre-seeded at construction included, and whenever run() is past its checks
\* (on its way to the push) the ring has a free slot, so the push cannot fail.
C1_RingNeverOverflows ==
    /\ Len(frame_ring) <= BUFFER_SIZE
    /\ pc = "body" => Len(frame_ring) < BUFFER_SIZE

\* a step has found the ring full and waited, with commands pending
C1_Witness ==
    /\ last.result = "Wait"
    /\ Len(frame_ring) = BUFFER_SIZE
    /\ command_ring # <<>>

\* a run() step that pushes a frame
Pushes == pc = "body" /\ Len(frame_ring') = Len(frame_ring) + 1

\* the cached chunk holds the source's frames of the indices it is tagged with
ChunkIsTrue(chunk) ==
    \A k \in 1..Len(chunk.frames) : chunk.frames[k] = Source(chunk.start_index + k - 1)

\* C2: every frame run() pushes with an index i >= 0 is the source's frame i
\* and is in the cached chunk after the step; the cached chunk is always a
\* true copy of the source at its tag and the scheduler's cursor is the
\* decoder's; a step with no command to apply whose cached chunk has frame i
\* serves it from the cache, leaving decoder, cursor and chunk alone, and one
\* whose index is at or above the cursor decodes forward without seeking.
C2_PushedFrameIsSourceFrame ==
    [][/\ decoded_chunk' # <<>> => ChunkIsTrue(decoded_chunk'[1])
       /\ decoder_current_frame_index' = decoder'.pos
       /\ Pushes =>
            LET f == LastFrame(frame_ring') IN
            /\ f.index >= 0 =>
                 /\ f.frame = Source(f.index)
                 /\ cached_frame(Sched', f.index) = <<f.frame>>
            /\ (command_ring = <<>> /\ cached_frame(Sched, f.index) # <<>>) =>
                 UNCHANGED <<decoder, decoder_current_frame_index, decoded_chunk>>
            /\ (/\ command_ring = <<>>
                /\ f.index >= decoder_current_frame_index
                /\ cached_frame(Sched, f.index) = <<>>) =>
                 decoded_chunk'[1].start_index >= decoder_current_frame_index
      ]_vars

\* a step applied a seek and pushed a frame behind the decoder's earlier
\* position, from a chunk decoded after seeking back
C2_Witness ==
    /\ last.result = "Continue"
    /\ last.applied # <<>>
    /\ last.index > 0
    /\ frame_ring # <<>>
    /\ LastFrame(frame_ring) = [frame |-> Source(last.index), index |-> last.index]
    /\ decoded_chunk # <<>>
    /\ decoded_chunk[1].start_index > 0
    /\ decoded_chunk[1].start_index < last.index

\* C3: a run() step that starts when shared.state is Stopped returns End and
\* the driver loop exits, with no command popped, no frame pushed and the
\* decoder, the transport and the shared block untouched; a step that was past
\* the state check when Stopped was set pushes at most one more frame.
C3_StoppedEndsTheThread ==
    /\ [][(pc = "run" /\ shared.state = "Stopped" /\ pc' # pc) =>
            /\ pc' = "done"
            /\ last'.result = "Stopped"
            /\ UNCHANGED <<frame_ring, command_ring, error_ring, transport,
                           decoder_current_frame_index, decoded_chunk, decoder,
                           shared>>
         ]_vars
    /\ [](afterStop <= 1)

\* the thread has exited at the state check, one frame having been pushed by
\* the step that was under way when the sound was stopped, commands pending
C3_Witness ==
    /\ pc = "done"
    /\ last.result = "Stopped"
    /\ afterStop = 1
    /\ command_ring # <<>>
    /\ ~shared.reached_end

\* the last step pushed a frame
LastPushed == last.result \in {"Continue", "End"}

\* C4: with no loop region, a playback region [s, e) and no command applied,
\* run() pushes the indices s, s+1, ..., e-1 in this order and nothing else;
\* the step that pushes e-1 sets reached_end and ends the thread; reached_end
\* is set exactly when the transport has stopped playing, after the final
\* frame was pushed, and no frame is pushed once it is set.
C4_PlaythroughEndsAfterLastFrame ==
    /\ [](LET ps == transport.playback_region[1]
              pe == transport.playback_region[2] IN
          /\ (pristine /\ transport.loop_region = <<>>) =>
               /\ produced <= pe - ps
               /\ transport.position = ps + produced
               /\ shared.reached_end <=> produced = pe - ps
               /\ (LastPushed /\ produced > 0) => last.index = ps + produced - 1
               /\ produced = pe - ps => (last.result = "End" /\ last.index = pe - 1)
          /\ shared.reached_end <=> ~transport.playing
          /\ shared.reached_end => pc = "done")
    /\ [][(Pushes /\ shared'.reached_end) =>
            /\ ~shared.reached_end
            /\ pc' = "done"
            /\ last'.result = "End"
            /\ LastFrame(frame_ring').index = transport'.position - 1]_vars
    /\ [][shared.reached_end => ~Pushes]_vars

\* a playthrough of a region that starts after frame 0 has ended
C4_Witness ==
    /\ pristine
    /\ transport.loop_region = <<>>
    /\ transport.playback_region[1] > 0
    /\ produced = transport.playback_region[2] - transport.playback_region[1]
    /\ shared.reached_end
    /\ pc = "done"
    /\ last.result = "End"

\* the transport is inside its loop region [a, b), which ends within the
\* playback region
InLoop(t) ==
    /\ t.loop_region # <<>>
    /\ t.loop_region[1][1] <= t.position
    /\ t.position < t.loop_region[1][2]

LoopWithinPlayback(t) ==
    t.loop_region # <<>> /\ t.loop_region[1][2] <= t.playback_region[2]

\* C5 as amended: with a loop region [a, b) that ends within the playback
\* region (b <= playback end), once the transport position is inside [a, b) every
\* step that applies no command pushes the index at the position, which is in
\* [a, b), moves the position to the next index, a after b-1, and neither
\* sets reached_end nor returns End; started inside the loop and with no
\* command applied, the n-th frame pushed has index a + (s - a + n) mod (b - a).
C5_LoopWrapsWithinPlayback ==
    /\ [][(Pushes /\ command_ring = <<>> /\ InLoop(transport)
           /\ LoopWithinPlayback(transport)) =>
            LET a == transport.loop_region[1][1]
                b == transport.loop_region[1][2] IN
            /\ LastFrame(frame_ring').index = transport.position
            /\ transport'.position =
                 IF transport.position = b - 1 THEN a ELSE transport.position + 1
            /\ InLoop(transport')
            /\ shared' = shared
            /\ pc' = "run"
            /\ last'.result = "Continue"]_vars
    /\ [](LET ps == transport.playback_region[1] IN
          (/\ pristine
           /\ transport.loop_region # <<>>
           /\ LoopWithinPlayback(transport)
           /\ transport.loop_region[1][1] <= ps
           /\ ps < transport.loop_region[1][2]
           /\ produced < MaxProduced) =>
            LET a == transport.loop_region[1][1]
                b == transport.loop_region[1][2] IN
            /\ transport.position = a + ((ps - a + produced) % (b - a))
            /\ ~shared.reached_end
            /\ (LastPushed /\ produced > 0) =>
                 last.index = a + ((ps - a + produced - 1) % (b - a)))

\* the whole source is looped and has been played more than twice over
C5_Witness ==
    /\ pristine
    /\ transport.loop_region = <<<<0, NumFrames>>>>
    /\ transport.playback_region = <<0, NumFrames>>
    /\ produced = 2 * NumFrames + 2
    /\ last.result = "Continue"
    /\ last.index = 1

\* C5 as claimed: with a loop region set and the position inside it, the
\* scheduler never sets reached_end nor returns End by itself.
C5_Original ==
    [][(Pushes /\ command_ring = <<>> /\ InLoop(transport)) =>
         (~shared'.reached_end /\ pc' = "run")]_vars

\* the seek commands among the given commands, in order
Seeks(commands) == SelectSeq(commands, IsSeek)

\* the index a seek command asks for, given the published position
SeekTarget(command, shared_position) ==
    IF command.type = "SeekTo"
    THEN Round(command.seconds)
    ELSE Round(shared_position + command.seconds)

\* the transport position after the given commands, applied in order
PositionAfter(position, commands, shared_position) ==
    IF Seeks(commands) = <<>>
    THEN position
    ELSE SeekTarget(LastFrame(Seeks(commands)), shared_position)

\* the frame of the given index as the scheduler is to produce it
FrameOf(index) ==
    [frame |-> IF index < 0 THEN FrameZERO ELSE Source(index), index |-> index]

\* C6: a step whose last seek command is SeekTo(t) pushes, in that same step,
\* the frame of index round(t * sample_rate) behind the frames already in the
\* ring, which stay ahead of it in their order, and leaves the transport one
\* increment past that index; a step with no command pushes the index the
\* previous step left in the transport, so the following frames are contiguous.
C6_SeekToIsProducedInTheSameStep ==
    /\ [][(Pushes /\ Seeks(command_ring) # <<>>
           /\ LastFrame(Seeks(command_ring)).type = "SeekTo") =>
            LET i == Round(LastFrame(Seeks(command_ring)).seconds) IN
            /\ frame_ring' = Append(frame_ring, FrameOf(i))
            /\ transport'.position =
                 increment_position([transport EXCEPT !.position = i]).position
         ]_vars
    /\ [][(Pushes /\ command_ring = <<>>) =>
            frame_ring' = Append(frame_ring, FrameOf(transport.position))]_vars

\* a SeekTo has been applied and its frame, the source's, sits in the ring
\* behind a frame pushed before the seek
C6_Witness ==
    /\ last.result = "Continue"
    /\ Seeks(last.applied) # <<>>
    /\ LastFrame(Seeks(last.applied)).type = "SeekTo"
    /\ last.index = Round(SubFrames + 1)
    /\ Len(frame_ring) >= 2
    /\ LastFrame(frame_ring) = FrameOf(last.index)
    /\ frame_ring[Len(frame_ring) - 1].index # last.index - 1

\* C7: the command ring is first-in first-out: the control plane appends, and
\* a step that pushes a frame has taken every pending command off the ring,
\* in issue order, before looking up its frame: the index pushed is the
\* transport position after the last of them (the target of the last seek
\* when there are several).
C7_CommandsAppliedInIssueOrder ==
    /\ [][Pushes =>
            /\ command_ring' = <<>>
            /\ last'.applied = command_ring
            /\ LastFrame(frame_ring').index =
                 PositionAfter(transport.position, command_ring, shared.position)
         ]_vars
    /\ [][(pc = "body" /\ pc' # "body" /\ ~Pushes) =>
            /\ Len(command_ring') <= Len(command_ring)
            /\ command_ring' = SubSeq(command_ring,
                                      Len(command_ring) - Len(command_ring') + 1,
                                      Len(command_ring))]_vars
    /\ [][(pc # "body" \/ pc' = "body") =>
            \/ command_ring' = command_ring
            \/ /\ Len(command_ring') = Len(command_ring) + 1
               /\ SubSeq(command_ring', 1, Len(command_ring)) = command_ring]_vars

\* one step applied a SeekTo and then a SeekBy to another index, and pushed
\* the frame of the SeekBy
C7_Witness ==
    /\ LastPushed
    /\ Len(last.applied) = 2
    /\ last.applied[1].type = "SeekTo"
    /\ last.applied[2].type = "SeekBy"
    /\ last.index # Round(last.applied[1].seconds)
    /\ frame_ring # <<>>
    /\ LastFrame(frame_ring).index = last.index

\* SeekBy(d) followed by SeekBy(-d)
IsRoundTrip(commands) ==
    /\ Len(commands) = 2
    /\ commands[1].type = "SeekBy"
    /\ commands[2].type = "SeekBy"
    /\ commands[2].seconds = -commands[1].seconds

\* C8 as amended: a SeekBy is relative to the published position p, not to the
\* scheduler's cursor: SeekBy(d) then SeekBy(-d) drained in one step leave the
\* cursor at round((p - d) * sample_rate), wherever it was; the pair returns
\* to within one frame of p * sample_rate when the second is processed after
\* the renderer has published the index the first one landed on.
C8_RoundTripThroughPublishedPosition ==
    /\ [](\A d \in SeekAmounts :
            \A r1 \in seek_by(Sched, d, shared.position) :
                ~r1.err =>
                    \A r2 \in seek_by(r1.s, -d, r1.s.transport.position * SubFrames) :
                        ~r2.err =>
                            Abs(r2.s.transport.position * SubFrames - shared.position)
                                <= SubFrames)
    /\ [][(Pushes /\ IsRoundTrip(command_ring)) =>
            LastFrame(frame_ring').index =
                Round(shared.position - command_ring[1].seconds)]_vars

\* a step has drained SeekBy(d) and SeekBy(-d) and pushed a frame more than
\* one frame away from the published position
C8_Witness ==
    /\ LastPushed
    /\ IsRoundTrip(last.applied)
    /\ frame_ring # <<>>
    /\ LastFrame(frame_ring).index = last.index
    /\ Abs(last.index * SubFrames - shared.position) > SubFrames

\* C8 as claimed: from the cursor at index i, SeekBy(d) and then SeekBy(-d)
\* bring the cursor back to within one frame of i.
C8_Original ==
    [][(Pushes /\ IsRoundTrip(command_ring)) =>
         Abs(LastFrame(frame_ring').index - transport.position) <= 1]_vars

\* what a step shows of its result: failure, the transport, the frame found
Visible(results) ==
    {[err |-> r.err, transport |-> r.s.transport, frame |-> r.frame] : r \in results}

SeekToCommand(t) == [type |-> "SeekTo", seconds |-> t, region |-> <<>>]

\* C9: in every state, draining SeekTo(t) twice gives the step the same
\* results (failure, transport position and playing flag, frame found) as
\* draining it once; and a step that did drain SeekTo(t) twice pushed the
\* frame, and left the transport, that a single SeekTo(t) allows.
C9_SeekToIsIdempotent ==
    /\ [](\A t \in SeekTimes :
            Visible(run_results(Sched, <<SeekToCommand(t), SeekToCommand(t)>>,
                                shared.position))
            = Visible(run_results(Sched, <<SeekToCommand(t)>>, shared.position)))
    /\ [][(Pushes /\ \E t \in SeekTimes :
                        command_ring = <<SeekToCommand(t), SeekToCommand(t)>>) =>
            \E r \in run_results(Sched, <<command_ring[1]>>, shared.position) :
                /\ ~r.err
                /\ transport' = increment_position(r.s.transport)
                /\ LastFrame(frame_ring') =
                     [frame |-> r.frame, index |-> r.s.transport.position]]_vars

\* a step has drained the same SeekTo twice, away from where the transport
\* was, and pushed its frame
C9_Witness ==
    /\ LastPushed
    /\ Len(last.applied) = 2
    /\ last.applied[1].type = "SeekTo"
    /\ last.applied[2] = last.applied[1]
    /\ last.index = Round(last.applied[1].seconds)
    /\ frame_ring # <<>>
    /\ LastFrame(frame_ring) = FrameOf(last.index)

\* the transport position each pending command finds when it is applied
PositionBefore(k) ==
    PositionAfter(transport.position, SubSeq(command_ring, 1, k - 1), shared.position)

RegionsOnly(commands) == commands # <<>> /\ Seeks(commands) = <<>>

\* C11: a step that applies only SetPlaybackRegion / SetLoopRegion commands
\* pushes the frame of the transport position it started with, index and
\* content as a step without any command would (one of the frames such a step
\* can find), and the decoder is used as without the command; when the loop
\* region in force after the step does not contain that position, the
\* position moves on by one, as without a loop, unless that reaches the new
\* loop's end (the wrap point), where it is taken back by the loop's length.
C11_RegionUpdatesKeepTheCursor ==
    /\ [][(Pushes /\ RegionsOnly(command_ring)) =>
            /\ frame_ring' = Append(frame_ring, FrameOf(transport.position))
            /\ \E r \in run_results(Sched, <<>>, shared.position) :
                   /\ ~r.err
                   /\ LastFrame(frame_ring') =
                        [frame |-> r.frame, index |-> r.s.transport.position]
                   /\ decoder' = r.s.dec
                   /\ decoded_chunk' = r.s.chunk
                   /\ decoder_current_frame_index' = r.s.dcfi]_vars
    /\ [][(/\ Pushes
           /\ RegionsOnly(command_ring)
           /\ transport'.loop_region # <<>>
           /\ ~InLoop([transport EXCEPT !.loop_region = transport'.loop_region])) =>
            LET a == transport'.loop_region[1][1]
                b == transport'.loop_region[1][2] IN
            transport'.position =
                IF transport.position + 1 >= b
                THEN transport.position + 1 - (b - a)
                ELSE transport.position + 1]_vars

\* a step has applied a SetPlaybackRegion and a SetLoopRegion, neither region
\* containing the position 0, pushed the source's frame 0 and moved on to 1
C11_Witness ==
    /\ last.result = "Continue"
    /\ Len(last.applied) = 2
    /\ RegionsOnly(last.applied)
    /\ last.applied[1].type # last.applied[2].type
    /\ last.index = 0
    /\ frame_ring # <<>>
    /\ LastFrame(frame_ring) = FrameOf(0)
    /\ transport.playback_region = <<1, NumFrames - 1>>
    /\ transport.loop_region = <<<<1, NumFrames - 1>>>>
    /\ transport.position = 1

\* the frame pre-seeded at construction
PreSeeded == [frame |-> FrameZERO, index |-> 0]

\* a run() step that completes with Continue or End
Productive == pc = "body" /\ pc' # "body" /\ last'.result \in {"Continue", "End"}

\* C12 as amended: the ring holds the pre-seeded (Frame::ZERO, 0) and nothing
\* else until run() pushes; only run() adds to the ring, exactly one frame per
\* productive step and none in any other, tagged with the transport position
\* after the step's commands and before its increment; with no seek applied
\* since the previous frame run() pushed, the tag is the previous tag plus 1,
\* or, after a loop wrap, an index not above it; the first frame run() pushes
\* carries the playback region start provided no seek was applied by then.
C12_IndexStream ==
    /\ [](~stream.pushed => frame_ring \in {<<>>, <<PreSeeded>>})
    /\ [][Len(frame_ring') > Len(frame_ring) =>
            /\ Productive
            /\ frame_ring' = Append(frame_ring, LastFrame(frame_ring'))
            /\ LastFrame(frame_ring').index =
                 PositionAfter(transport.position, command_ring, shared.position)
            /\ transport'.position =
                 increment_position([transport' EXCEPT
                     !.position = LastFrame(frame_ring').index]).position
            /\ stream'.wrapped => transport'.loop_region # <<>>]_vars
    /\ [][Productive => Pushes]_vars
    /\ [][(Pushes /\ stream.pushed /\ ~stream.sought /\ Seeks(command_ring) = <<>>) =>
            IF stream.wrapped
            THEN LastFrame(frame_ring').index <= stream.tag
            ELSE LastFrame(frame_ring').index = stream.tag + 1]_vars
    /\ [][(Pushes /\ ~stream.pushed /\ ~stream.sought /\ Seeks(command_ring) = <<>>) =>
            LastFrame(frame_ring').index = transport.playback_region[1]]_vars

\* the first frame run() pushed sits right behind the pre-seeded frame and
\* carries the index of a seek applied in that first step, not the playback
\* region start
C12_Witness ==
    /\ stream.pushed
    /\ Len(frame_ring) = 2
    /\ frame_ring[1] = PreSeeded
    /\ frame_ring[2] = FrameOf(stream.tag)
    /\ Seeks(last.applied) # <<>>
    /\ stream.tag # transport.playback_region[1]
    /\ stream.tag = 2

\* C12 as claimed: the first frame pushed by run() carries the playback
\* region start.
C12_Original ==
    [][(Pushes /\ ~stream.pushed) =>
         LastFrame(frame_ring').index = transport.playback_region[1]]_vars

\* a run() step that fails
Fails == pc = "body" /\ pc' # "body" /\ last'.result = "Err"

\* C13: a run() step past the checks always has an outcome, a frame to push
\* or a decoder error, and completes with one of them; a failed step adds its error to the error ring when
\* the ring has room and leaves the ring as it is when it is full, never
\* exceeding the capacity, pushes no frame, leaves the shared block alone and
\* hands control back to the driver loop, which calls run() again.
C13_ErrorReportingNeverBlocks ==
    /\ [](Len(error_ring) <= ErrorCapacity)
    /\ [](pc = "body" => run_results(Sched, command_ring, shared.position) # {})
    /\ [][Fails =>
            /\ error_ring' = IF Len(error_ring) < ErrorCapacity
                             THEN Append(error_ring, "DecoderError")
                             ELSE error_ring
            /\ last'.dropped = (Len(error_ring) = ErrorCapacity)
            /\ pc' = "run"
            /\ UNCHANGED <<frame_ring, shared>>]_vars
    /\ [][(pc = "body" /\ pc' # "body") => (Fails \/ Pushes)]_vars

\* a step has failed with the error ring full, its error was dropped, and the
\* driver loop has gone on to call run() again
C13_Witness ==
    /\ last.result = "Err"
    /\ last.dropped
    /\ Len(error_ring) = ErrorCapacity
    /\ pc = "body"

\* C14 as claimed: if the decoder's calls fail on every call from some point
\* on (the decoder is broken for good and every run() step fails), the
\* driver loop eventually terminates.
C14_Original ==
    <>[](decoder.broken /\ last.result = "Err") => <>(pc = "done")

LastSeekTarget(commands) == SeekTarget(LastFrame(Seeks(commands)), shared.position)

\* C16: a step whose last seek asks for a negative index i pushes
\* (Frame::ZERO, i), leaves the transport one increment past i, negative or
\* 0, and the decoder and the scheduler's cursor at frame 0; the decoder's
\* position is never negative; every frame pushed with a negative index is
\* Frame::ZERO, and a step that pushes one without applying a seek leaves the
\* decoder, the cursor and the cached chunk as they were; the frame pushed
\* with index 0 is the source's frame 0, also right after index -1.
C16_NegativePositionsAreSilence ==
    /\ [](decoder.pos >= 0 /\ decoder_current_frame_index >= 0)
    /\ [][(Pushes /\ Seeks(command_ring) # <<>> /\ LastSeekTarget(command_ring) < 0) =>
            /\ LastFrame(frame_ring') =
                 [frame |-> FrameZERO, index |-> LastSeekTarget(command_ring)]
            /\ transport'.position = LastSeekTarget(command_ring) + 1
            /\ decoder'.pos = 0
            /\ decoder_current_frame_index' = 0]_vars
    /\ [][(Pushes /\ LastFrame(frame_ring').index < 0) =>
            /\ LastFrame(frame_ring').frame = FrameZERO
            /\ Seeks(command_ring) = <<>> =>
                 UNCHANGED <<decoder, decoder_current_frame_index, decoded_chunk>>]_vars
    /\ [][(Pushes /\ LastFrame(frame_ring').index = 0) =>
            /\ LastFrame(frame_ring').frame = Source(0)
            /\ LastFrame(frame_ring').frame # FrameZERO]_vars

\* after a seek to a negative index the position has come up to 0: the ring
\* ends with the silent frame of index -1 and the source's frame 0
C16_Witness ==
    /\ Len(frame_ring) >= 2
    /\ frame_ring[Len(frame_ring) - 1] = [frame |-> FrameZERO, index |-> -1]
    /\ LastFrame(frame_ring) = [frame |-> Source(0), index |-> 0]
    /\ last.result = "Continue"
    /\ last.applied = <<>>
    /\ stream.tag = 0
    /\ transport.position = 1

\* one unit in the last place of 1.0
Tolerance == One \div (2 ^ (MantissaBits - 1))

\* the arena's emitters with spatialization enabled
Spatialized == {i \in 1..Len(emitters) : emitters[i].enable_spatialization}

\* offsets from the listener: on the axes, and off them
PanOffsets ==
    {<<x * One, 0, 0>> : x \in -2..2} \cup {<<0, y * One, 0>> : y \in -2..2}
    \cup {<<0, 0, One>>, <<One, One, 0>>, <<-One, 2 * One, One>>}

\* positions around the listener, and those of the spatialized emitters
PanPositions ==
    {vec3_add(listener.position, offset) : offset \in PanOffsets}
    \cup {emitters[i].position : i \in Spatialized}

\* the point ten units along the listener's +X axis
FarAlongX ==
    vec3_add(listener.position,
             quat_mul_vec3(listener.orientation, vec3_mul(Vec3X, 10 * One)))

\* g is within Tolerance of the interval [lo, hi]
Within(g, lo, hi) == g >= lo - Tolerance /\ g <= hi + Tolerance

Contributions ==
    [i \in 1..Len(emitters) |-> emitter_output(listener, emitters[i])]

\* the frames c, added up from Frame::ZERO in the order slots gives
RECURSIVE SumInOrder(_, _, _, _)
SumInOrder(c, slots, i, acc) ==
    IF i > Len(emitters) THEN acc
    ELSE SumInOrder(c, slots, i + 1, frame_add(acc, c[slots[i]]))

\* the sums of the contributions, over the orders of iteration
Mixdowns ==
    LET c == Contributions
    IN  {SumInOrder(c, slots, 1, FrameStereoZERO) :
            slots \in Permutations(1..Len(emitters))}

\* the sum of the magnitudes of channel k of the contributions
RECURSIVE Magnitude(_, _, _)
Magnitude(c, k, i) ==
    IF i > Len(emitters) THEN 0 ELSE Abs(c[i][k]) + Magnitude(c, k, i + 1)

\* a and b differ by no more than the rounding errors of the additions
RoundingApart(a, b) ==
    \A k \in 1..2 :
        Abs(a[k] - b[k]) * (2 ^ (MantissaBits - 1)) <=
            Len(emitters) * Magnitude(Contributions, k, 1)

\* C18: process() returns the contributions of the emitters added up channel
\* by channel from Frame::ZERO in the arena's iteration order, each addition
\* rounded: another order gives the same frame up to the rounding errors of
\* the additions, and exactly the same frame for at most two emitters. The
\* result is Frame::ZERO for an empty arena and is never clipped; an emitter
\* with no attenuation function and spatialization disabled contributes its
\* output unchanged; process() changes neither the listener nor an emitter.
C18_MixdownIsASum ==
    /\ [](output # <<>> =>
            /\ output[1] \in Mixdowns
            /\ output[1] =
                   SumInOrder(Contributions, [i \in 1..Len(emitters) |-> i], 1,
                              FrameStereoZERO)
            /\ \A mixdown \in Mixdowns : RoundingApart(mixdown, output[1])
            /\ Len(emitters) <= 2 => Mixdowns = {output[1]}
            /\ emitters = <<>> => output[1] = FrameStereoZERO)
    /\ [](\A i \in 1..Len(emitters) :
            (/\ emitters[i].attenuation_function = "None"
             /\ ~emitters[i].enable_spatialization)
            => Contributions[i] = emitters[i].output)
    /\ [][output' # <<>> =>
            /\ UNCHANGED <<listener, emitters>>
            /\ output' = <<process(listener, emitters)>>]_vars

\* process() has mixed the emitter far along +X and a full-scale emitter that
\* is neither attenuated nor spatialized: left 1.5, right 2
C18_Witness ==
    /\ listener = ListenerNew(Vec3ZERO, QuatIDENTITY)
    /\ emitters = <<Far, Plain>>
    /\ output = <<<<fadd(One, MIN_EAR_AMPLITUDE), Two>>>>

\* C18 as stated: the frame process() returned does not depend on the order
\* of iteration
C18_Original == output # <<>> => Mixdowns = {output[1]}

\* run() is called with the frame ring full and the state not Stopped
CalledOnFullRing ==
    /\ pc = "run"
    /\ shared.state # "Stopped"
    /\ Len(frame_ring) = BUFFER_SIZE

\* C19: a run() step that finds the frame ring full, the state not being
\* Stopped, returns Wait and changes neither the command ring, nor the
\* transport, the decoder and its cursor, the cached chunk, the frame ring or
\* the shared block; while the ring is full no command leaves the command
\* ring, so commands issued then are applied by a step that found a free slot.
C19_WaitChangesNothing ==
    /\ [][(CalledOnFullRing /\ last' # last) =>
            /\ last' = [NoStep EXCEPT !.result = "Wait"]
            /\ pc' = "run"
            /\ UNCHANGED <<command_ring, error_ring, transport,
                           decoder_current_frame_index, decoded_chunk, decoder,
                           frame_ring, shared>>]_vars
    /\ [][CalledOnFullRing => pc' = "run"]_vars
    /\ [][Len(frame_ring) = BUFFER_SIZE =>
            /\ Len(command_ring') >= Len(command_ring)
            /\ SubSeq(command_ring', 1, Len(command_ring)) = command_ring
            /\ last' = last \/ last'.applied = <<>>]_vars
    /\ [][command_ring' # command_ring /\ Len(command_ring') <= Len(command_ring) =>
            /\ pc = "body"
            /\ Len(frame_ring) < BUFFER_SIZE]_vars

\* a step has found the ring full and waited with as many commands pending
\* as the control plane may issue
C19_Witness ==
    /\ last = [NoStep EXCEPT !.result = "Wait"]
    /\ Len(frame_ring) = BUFFER_SIZE
    /\ pc = "run"
    /\ Len(command_ring) = MaxCommands
    /\ shared.state = "Playing"

\* the lookups a step under way can make: the scheduler as the drain loop
\* leaves it, and the index it asks for
Lookups ==
    {[s |-> d.s, index |-> d.s.transport.position] :
        d \in {d \in drain(Sched, command_ring, shared.position) : ~d.err}}

\* C20: for an index of the source, frame_at_index returns, a frame or an
\* error of the decoder, after at most one decoder.seek(), made exactly when
\* no cached chunk has the frame and the index is below the decoder cursor,
\* and at most MaxEmpty + 1 calls of decoder.decode() per frame between the
\* cursor and the index; it returns the frame if no call of the decoder
\* fails; every run() step ends, with Wait, End, Continue or an error.
C20_FrameLookupTerminates ==
    /\ [](pc = "body" =>
            \A l \in Lookups :
                (l.index >= 0 /\ l.index < NumFrames) =>
                    LET found == frame_at_index(l.s, l.index)
                        decodes == frame_at_index_decodes(l.s, l.index)
                        cached == cached_frame(l.s, l.index) # <<>>
                    IN  /\ found # {}
                        /\ \A f \in found : ~f.err => f.frame = Source(l.index)
                        /\ (l.s.faults = 0 /\ ~l.s.dec.broken) =>
                               \A f \in found : ~f.err
                        /\ seek_calls(l.s, l.index) <= 1
                        /\ seek_calls(l.s, l.index) = 1 <=>
                               (~cached /\ l.index < l.s.dcfi)
                        /\ decodes # {}
                        /\ \A n \in decodes : n <= (l.index + 1) * (MaxEmpty + 1)
                        /\ cached => decodes = {0}
                        /\ (~cached /\ l.s.faults = 0 /\ ~l.s.dec.broken) =>
                               0 \notin decodes)
    /\ [][pc = "run" /\ last' # last =>
            last'.result \in {"Stopped", "Wait"} \/ pc' = "body"]_vars
    /\ [][pc = "body" /\ pc' # "body" =>
            last'.result \in {"Continue", "End", "Err"}]_vars

\* a step under way looks up a frame of the source below the decoder cursor
\* that is not cached: it takes a seek and can take as many decode() calls
\* as the bound allows
C20_Witness ==
    /\ pc = "body"
    /\ command_ring = <<>>
    /\ transport.position >= 0
    /\ transport.position < decoder_current_frame_index
    /\ seek_calls(Sched, transport.position) = 1
    /\ (transport.position + 1) * (MaxEmpty + 1)
           \in frame_at_index_decodes(Sched, transport.position)

\* the drain loop's outcomes for the step under way
Drains == drain(Sched, command_ring, shared.position)

\* C21: a run() step that fails pushes no frame and does not advance the
\* transport: its position is the one the commands taken off the ring ask for
\* (the target of the last seek among them, a failed one included) and, with
\* no command taken, the whole transport is as it was; when the drain loop
\* fails, it is on a seek command, which is taken off the ring with the
\* commands ahead of it, and the commands behind it stay in the ring in their
\* order (a step whose drain loop cannot but fail, the decoder being broken,
\* leaves exactly them); every step takes its commands off the head of the ring and a step
\* that pushes empties it, while the other threads only append to the ring or
\* leave it alone and never touch the transport, so no command is applied
\* twice; a step that pushes after a failed one pushes the frame of the
\* transport position as its own commands leave it, which, no seek having
\* been applied since the last push, is the index the transport was left at
\* by that push (the last index plus 1 unless the loop wrapped).
C21_FailedStepLosesNothing ==
    /\ [](pc = "body" =>
            \A d \in Drains :
                d.err =>
                    \E k \in 1..Len(command_ring) :
                        /\ IsSeek(command_ring[k])
                        /\ d.rest = SubSeq(command_ring, k + 1, Len(command_ring))
                        /\ d.s.transport.position =
                               SeekTarget(command_ring[k], shared.position)
                        /\ d.s.dcfi = decoder_current_frame_index
                               \/ \E j \in 1..(k - 1) : IsSeek(command_ring[j]))
    /\ [][Fails =>
            /\ frame_ring' = frame_ring
            /\ command_ring = last'.applied \o command_ring'
            /\ command_ring' # <<>> =>
                   (last'.applied # <<>> /\ IsSeek(LastFrame(last'.applied)))
            /\ (command_ring' # <<>> \/ \A d \in Drains : d.err) =>
                   \E d \in Drains : d.err /\ d.rest = command_ring'
            /\ transport'.position =
                   PositionAfter(transport.position, last'.applied, shared.position)
            /\ last'.applied = <<>> => transport' = transport]_vars
    /\ [][Pushes =>
            /\ command_ring' = <<>>
            /\ last'.applied = command_ring
            /\ frame_ring' = Append(frame_ring,
                   FrameOf(PositionAfter(transport.position, command_ring,
                                         shared.position)))]_vars
    /\ [][pc # "body" =>
            /\ transport' = transport
            /\ command_ring' = command_ring
                   \/ \E c \in QueuedCommands : command_ring' = Append(command_ring, c)]_vars
    /\ [][(Pushes /\ last.result = "Err" /\ Seeks(command_ring) = <<>>
           /\ stream.pushed /\ ~stream.sought) =>
            /\ LastFrame(frame_ring').index = transport.position
            /\ ~stream.wrapped => LastFrame(frame_ring').index = stream.tag + 1]_vars

\* the first step failed on the seek of a SeekTo: the transport is at the
\* seek's target, the decoder cursor was not moved, no frame was pushed, and
\* the region command queued behind the SeekTo is still in the command ring
C21_Witness ==
    /\ last.result = "Err"
    /\ Len(last.applied) = 1
    /\ last.applied[1].type = "SeekTo"
    /\ transport.position = SeekTarget(last.applied[1], shared.position)
    /\ decoder_current_frame_index = 0
    /\ ~stream.pushed
    /\ frame_ring = <<[frame |-> FrameZERO, index |-> 0]>>
    /\ Len(command_ring) = 1
    /\ command_ring[1].type = "SetLoopRegion"
    /\ pc = "run"

====
